---- MODULE Spec2Model ----
(***************************************************************************)
(* State-machine model of ThreeMFWorkspaceReader (plugins/3MFReader):      *)
(* preRead (conflict detection and the resolution dialog) followed by read *)
(* (the merge of the archive's containers into the ContainerRegistry).     *)
(***************************************************************************)
EXTENDS Naturals, Sequences, FiniteSets

VARIABLES
    archive,            \* the zip file's entries, in namelist order
    objs,               \* the heap: every container object, by handle
    registry,           \* ContainerRegistry._containers: handles, in order
    pre,                \* the heap and registry as they were before the import
    resolve_strategies, \* self._resolve_strategies
    id_mapping,         \* self._id_mapping
    pc,                 \* position in preRead / read
    idx,                \* index of the running for-loop
    result,             \* what preRead returned
    prompted,           \* whether the WorkspaceDialog was shown
    error,              \* the exception that ended preRead or read, if any
    quality_changes_instance_containers, \* local list of read
    global_stack,       \* local of read (0 is None)
    extruder_stacks,    \* local list of read
    extruder_trains,    \* ExtruderManager._extruder_trains
    active,             \* the stack given to setGlobalContainerStack (0: none)
    preferences,        \* where the two copied preference values come from
    calls,              \* log of the getNewId calls of this read
    renamed             \* log of the objects read gave a new identity

vars == <<archive, objs, registry, pre, resolve_strategies, id_mapping, pc, idx,
          result, prompted, error, quality_changes_instance_containers,
          global_stack, extruder_stacks, extruder_trains, active, preferences,
          calls, renamed>>

(***************************************************************************)
(* Strings.  An identity or name is b [" #" n] ["_current_settings"        *)
(* [" #" n2]]; n = 1 (n2 = 1) stands for "no number".                      *)
(***************************************************************************)
Str(b, n, cs) == [b |-> b, n |-> n, cs |-> cs, n2 |-> 1]

None == Str("", 1, FALSE)

\* Python truthiness of a metadata entry: None and "" are false.
Truthy(s) == s # None

\* s + "_current_settings"   (only applied to strings without that suffix)
CurrentSettings(s) == [s EXCEPT !.cs = TRUE]

\* The text before a trailing " #<digits>", as the regular expression of
\* uniqueName finds it.
StripNumber(s) == IF s.cs THEN [s EXCEPT !.n2 = 1] ELSE [s EXCEPT !.n = 1]

\* "%s #%d" % (name, i) for a name without trailing number.
Numbered(name, i) == IF name.cs THEN [name EXCEPT !.n2 = i] ELSE [name EXCEPT !.n = i]

(***************************************************************************)
(* Archive entries.  A path is "<dir><segs[1]>.<segs[2]>. ...".            *)
(***************************************************************************)
definition_container_suffix == <<"def", "json">>
material_container_suffix == <<"xml", "fdm_material">>
instance_container_suffix == <<"inst", "cfg">>
container_stack_suffix == <<"stack", "cfg">>

\* name.endswith("." + suffix)
EndsWith(file, suffix) ==
    /\ Len(file.segs) > Len(suffix)
    /\ SubSeq(file.segs, Len(file.segs) - Len(suffix) + 1, Len(file.segs)) = suffix

\* file.replace("Cura/", "").split(".")[0]
StripFileToId(file) == Head(file.segs)

RECURSIVE SelectFiles(_, _)
SelectFiles(files, suffix) ==
    IF files = <<>> THEN <<>>
    ELSE LET rest == SelectFiles(Tail(files), suffix)
         IN  IF Head(files).dir = "Cura/" /\ EndsWith(Head(files), suffix)
             THEN <<Head(files)>> \o rest
             ELSE rest

\* [name for name in archive.namelist() if name.startswith("Cura/") and name.endswith(suffix)]
FilesWithSuffix(arc, suffix) == SelectFiles(arc, suffix)

(***************************************************************************)
(* Container objects and the registry.                                     *)
(***************************************************************************)
Container(cls, id, name, type, payload, extruder, machine, containers, position) ==
    [cls |-> cls, id |-> id, name |-> name, type |-> type, payload |-> payload,
     extruder |-> extruder, machine |-> machine, containers |-> containers,
     position |-> position, next |-> 0]

RECURSIVE SelectHandles(_, _, _, _)
SelectHandles(o, reg, classes, id) ==
    IF reg = <<>> THEN <<>>
    ELSE LET rest == SelectHandles(o, Tail(reg), classes, id)
         IN  IF o[Head(reg)].cls \in classes /\ o[Head(reg)].id = id
             THEN <<Head(reg)>> \o rest
             ELSE rest

AllClasses == {"definition", "material", "instance", "stack"}

\* ContainerRegistry.findContainers(container_type = ..., id = id)
findContainers(o, reg, classes, id) == SelectHandles(o, reg, classes, id)

findContainerStacks(o, reg, id) == findContainers(o, reg, {"stack"}, id)

findDefinitionContainers(o, reg, id) == findContainers(o, reg, {"definition"}, id)

\* XmlMaterialProfile is a subclass of InstanceContainer.
findInstanceContainers(o, reg, id) == findContainers(o, reg, {"instance", "material"}, id)

\* Some container of the registry has this id or this name.
NameTaken(o, reg, s) ==
    \E k \in 1..Len(reg) : o[reg[k]].id = s \/ o[reg[k]].name = s

RECURSIVE FirstFree(_, _, _, _)
FirstFree(o, reg, name, i) ==
    LET candidate == IF i = 1 THEN name ELSE Numbered(name, i)
    IN  IF NameTaken(o, reg, candidate) THEN FirstFree(o, reg, name, i + 1) ELSE candidate

\* ContainerRegistry.uniqueName(original)
uniqueName(o, reg, original) ==
    LET stripped == StripNumber(original)
        name == IF stripped.b = "" THEN [stripped EXCEPT !.b = "Profile"] ELSE stripped
    IN  FirstFree(o, reg, name, 1)

\* The classes addContainer looks at: findContainers(container_type = type(container)).
SameTypeClasses(cls) == IF cls = "instance" THEN {"instance", "material"} ELSE {cls}

\* ContainerRegistry.addContainer(container): the registry after the call.
addContainer(o, reg, h) ==
    IF findContainers(o, reg, SameTypeClasses(o[h].cls), o[h].id) # <<>>
    THEN reg
    ELSE Append(reg, h)

(***************************************************************************)
(* Deserialization.  A payload is the parsed content of one archive entry; *)
(* a corrupt payload makes deserialize raise.                              *)
(***************************************************************************)
RECURSIVE ResolveRefs(_, _, _)
\* ContainerStack.deserialize looks every listed container id up in the
\* registry and holds the object found (0: no container has that id).
ResolveRefs(o, reg, refs) ==
    IF refs = <<>> THEN <<>>
    ELSE LET found == findContainers(o, reg, AllClasses, Head(refs))
         IN  <<IF found = <<>> THEN 0 ELSE Head(found)>> \o ResolveRefs(o, reg, Tail(refs))

\* Whether deserialize(payload) raises for a container of this class.
DeserializeFails(o, reg, cls, body) ==
    \/ body.corrupt
    \/ cls = "stack" /\ \E k \in 1..Len(body.refs) : ResolveRefs(o, reg, body.refs)[k] = 0

\* container.deserialize(payload): the object after the call.  The identity
\* is not part of the payload; everything else is.
Deserialize(o, reg, obj, body, tag) ==
    [obj EXCEPT !.name = body.name, !.type = body.type, !.payload = tag,
                !.extruder = body.extruder, !.machine = body.machine,
                !.position = body.position,
                !.containers = IF obj.cls = "stack" THEN ResolveRefs(o, reg, body.refs)
                               ELSE <<>>]

\* A freshly constructed container of the given class and id.
NewContainer(cls, id) == Container(cls, id, id, "", 0, None, None, <<>>, "")

\* stack.findContainer({"type": type}): the first held container of that type (0: None).
findContainer(o, stack, type) ==
    LET hits == {k \in 1..Len(stack.containers) :
                    stack.containers[k] # 0 /\ o[stack.containers[k]].type = type}
    IN  IF hits = {} THEN 0
        ELSE stack.containers[CHOOSE k \in hits : \A j \in hits : k <= j]

\* stack.getContainerIndex(container)
getContainerIndex(stack, h) ==
    CHOOSE k \in 1..Len(stack.containers) :
        /\ stack.containers[k] = h
        /\ \A j \in 1..Len(stack.containers) : stack.containers[j] = h => k <= j

(***************************************************************************)
(* The inputs: the registry before the import and the archive.             *)
(***************************************************************************)
MachineId == Str("printer", 1, FALSE)
ExtruderId == Str("extruder", 1, FALSE)
QualityId == Str("fast_print", 1, FALSE)
DefinitionId == Str("fdmprinter", 1, FALSE)
MaterialId == Str("pla", 1, FALSE)

\* How many numbered variants of the machine stack ("printer", "printer #2",
\* ...) the registry may hold before the import.
MaxVariants == 2

Payload(name, type, extruder, machine, refs, position) ==
    [corrupt |-> FALSE, name |-> name, type |-> type, extruder |-> extruder,
     machine |-> machine, refs |-> refs, position |-> position]

File(dir, segs, body) == [dir |-> dir, segs |-> segs, body |-> body]

NoPayload == Payload(None, "", None, None, <<>>, "")

UserPayload(owner, isExtruder) ==
    Payload(CurrentSettings(owner), "user",
            IF isExtruder THEN owner ELSE None,
            IF isExtruder THEN None ELSE owner, <<>>, "")

MachinePayload ==
    Payload(MachineId, "machine", None, None,
            <<CurrentSettings(MachineId), QualityId, MaterialId, DefinitionId>>, "")

ExtruderPayload ==
    Payload(ExtruderId, "extruder_train", None, None,
            <<CurrentSettings(ExtruderId), QualityId>>, "0")

IfSeq(cond, s) == IF cond THEN s ELSE <<>>

\* The archive: scene data, preferences, one definition, one material, the
\* user profiles, optionally a quality_changes profile, the machine stack,
\* optionally an extruder stack and a second entry whose name strips to the
\* same id ("Cura/extruder.bak.stack.cfg").
ArchiveFiles(withExtruder, withTwin, withQuality) ==
    <<File("3D/", <<"3dmodel", "model">>, NoPayload),
      File("Cura/", <<"preferences", "cfg">>, NoPayload),
      File("Cura/", <<DefinitionId>> \o definition_container_suffix,
           Payload(DefinitionId, "machine", None, None, <<>>, "")),
      File("Cura/", <<MaterialId>> \o material_container_suffix,
           Payload(MaterialId, "material", None, None, <<>>, "")),
      File("Cura/", <<CurrentSettings(MachineId)>> \o instance_container_suffix,
           UserPayload(MachineId, FALSE))>>
    \o IfSeq(withExtruder,
         <<File("Cura/", <<CurrentSettings(ExtruderId)>> \o instance_container_suffix,
                UserPayload(ExtruderId, TRUE))>>)
    \o IfSeq(withQuality,
         <<File("Cura/", <<QualityId>> \o instance_container_suffix,
                Payload(QualityId, "quality_changes", None, None, <<>>, ""))>>)
    \o <<File("Cura/", <<MachineId>> \o container_stack_suffix, MachinePayload)>>
    \o IfSeq(withExtruder,
         <<File("Cura/", <<ExtruderId>> \o container_stack_suffix, ExtruderPayload)>>)
    \o IfSeq(withExtruder /\ withTwin,
         <<File("Cura/", <<ExtruderId, "bak">> \o container_stack_suffix, ExtruderPayload)>>)

\* The archive with entry c (0: none) holding a payload that does not parse.
WithCorrupt(files, c) ==
    [k \in 1..Len(files) |->
        IF k = c THEN [files[k] EXCEPT !.body.corrupt = TRUE] ELSE files[k]]

\* The entries read deserializes.
ContainerFileIndexes(files) ==
    {k \in 1..Len(files) :
        \E s \in {definition_container_suffix, material_container_suffix,
                  instance_container_suffix, container_stack_suffix} :
            files[k].dir = "Cura/" /\ EndsWith(files[k], s)}

StoredContainer(cls, id, type, extruder, machine) ==
    Container(cls, id, id, type, 0, extruder, machine, <<>>, "")

\* The non-stack containers of the registry before the import.
StoredProfiles(sD, sT, sQ, sUm, sUe) ==
       IfSeq(sD, <<StoredContainer("definition", DefinitionId, "machine", None, None)>>)
    \o IfSeq(sT, <<StoredContainer("material", MaterialId, "material", None, None)>>)
    \o IfSeq(sQ, <<StoredContainer("instance", QualityId, "quality_changes", None, None)>>)
    \o IfSeq(sUm, <<StoredContainer("instance", CurrentSettings(MachineId), "user",
                                    None, MachineId)>>)
    \o IfSeq(sUe, <<StoredContainer("instance", CurrentSettings(ExtruderId), "user",
                                    ExtruderId, None)>>)

\* A stored stack holds those of its containers that the registry has.
StoredStack(profiles, id, type, refs, position) ==
    LET reg == [k \in 1..Len(profiles) |-> k]
        all == ResolveRefs(profiles, reg, refs)
    IN  [Container("stack", id, id, type, 0, None, None,
                   SelectSeq(all, LAMBDA h : h # 0), position) EXCEPT !.payload = 0]

StoredObjects(sD, sT, sQ, sUm, sUe, sM, sE) ==
    LET profiles == StoredProfiles(sD, sT, sQ, sUm, sUe)
    IN  profiles
        \o [k \in 1..sM |->
               StoredStack(profiles, IF k = 1 THEN MachineId ELSE Numbered(MachineId, k),
                           "machine", MachinePayload.refs, "")]
        \o IfSeq(sE, <<StoredStack(profiles, ExtruderId, "extruder_train",
                                   ExtruderPayload.refs, "0")>>)

EmptyMap == [x \in {} |-> None]

Init ==
    \E sD \in BOOLEAN, sT \in BOOLEAN, sQ \in BOOLEAN, sUm \in BOOLEAN, sUe \in BOOLEAN,
       sM \in 0..MaxVariants, sE \in BOOLEAN,
       aE \in BOOLEAN, aT \in BOOLEAN, aQ \in BOOLEAN :
        /\ aT => aE
        /\ aQ \/ sQ
        /\ \E c \in {0} \cup ContainerFileIndexes(ArchiveFiles(aE, aT, aQ)) :
               archive = WithCorrupt(ArchiveFiles(aE, aT, aQ), c)
        /\ objs = StoredObjects(sD, sT, sQ, sUm, sUe, sM, sE)
        /\ registry = [k \in 1..Len(objs) |-> k]
        /\ pre = [objs |-> objs, registry |-> registry]
        /\ resolve_strategies = [d \in {} |-> ""]
        /\ id_mapping = EmptyMap
        /\ pc = "preRead"
        /\ idx = 0
        /\ result = "none"
        /\ prompted = FALSE
        /\ error = ""
        /\ quality_changes_instance_containers = <<>>
        /\ global_stack = 0
        /\ extruder_stacks = <<>>
        /\ extruder_trains = {}
        /\ active = 0
        /\ preferences = "application"
        /\ calls = <<>>
        /\ renamed = <<>>

(***************************************************************************)
(* getNewId                                                                *)
(***************************************************************************)
\* Mutant of getNewId: no cache, the registry is asked on every call.
getNewId_NoCache(o, reg, map, old_id) ==
    LET after == [x \in DOMAIN map \cup {old_id} |->
                     IF x = old_id THEN uniqueName(o, reg, old_id) ELSE map[x]]
    IN  [map |-> after, id |-> after[old_id]]

\* Mutant of getNewId: the old id is kept, the registry is not asked.
getNewId_KeepsId(o, reg, map, old_id) ==
    LET after == IF old_id \in DOMAIN map THEN map
                 ELSE [x \in DOMAIN map \cup {old_id} |->
                          IF x = old_id THEN old_id ELSE map[x]]
    IN  [map |-> after, id |-> after[old_id]]

\* self.getNewId(old_id): the mapping after the call and the id returned.
getNewId(o, reg, map, old_id) ==
    LET after == IF old_id \in DOMAIN map THEN map
                 ELSE [x \in DOMAIN map \cup {old_id} |->
                          IF x = old_id THEN uniqueName(o, reg, old_id) ELSE map[x]]
    IN  [map |-> after, id |-> after[old_id]]

\* Some container of the registry has this id.
IdPresent(o, reg, id) == \E k \in 1..Len(reg) : o[reg[k]].id = id

\* The log entry of one getNewId call.
CallRecord(o, reg, map, old_id) ==
    [old |-> old_id, ret |-> getNewId(o, reg, map, old_id).id,
     cached |-> old_id \in DOMAIN map,
     present |-> IdPresent(o, reg, getNewId(o, reg, map, old_id).id)]

(***************************************************************************)
(* preRead                                                                 *)
(***************************************************************************)
readVars == <<objs, registry, id_mapping, quality_changes_instance_containers,
              global_stack, extruder_stacks, extruder_trains, active, preferences,
              calls, renamed>>

\* Lines 59-65: some stack entry's id is the id of a stack of the registry.
StackConflict(o, reg, arc) ==
    LET files == FilesWithSuffix(arc, container_stack_suffix)
    IN  \E k \in 1..Len(files) : findContainerStacks(o, reg, StripFileToId(files[k])) # <<>>

\* Mutant of InstanceConflict: the type of the container is not looked at.
InstanceConflict_AnyType(o, reg, arc) ==
    LET files == FilesWithSuffix(arc, instance_container_suffix)
    IN  \E k \in 1..Len(files) :
            findInstanceContainers(o, reg, StripFileToId(files[k])) # <<>>

\* Lines 68-81: every instance container entry is deserialized; one of type
\* quality_changes whose id the registry has among its instance containers
\* is a conflict.
InstanceConflict(o, reg, arc) ==
    LET files == FilesWithSuffix(arc, instance_container_suffix)
    IN  \E k \in 1..Len(files) :
            /\ files[k].body.type = "quality_changes"
            /\ findInstanceContainers(o, reg, StripFileToId(files[k])) # <<>>

\* Lines 54-81: "conflict", "none", or "raise" when a deserialize of the
\* instance container loop fails.
DetectConflict(o, reg, arc) ==
    LET files == FilesWithSuffix(arc, instance_container_suffix)
    IN  IF StackConflict(o, reg, arc) THEN "conflict"
        ELSE IF \E k \in 1..Len(files) : files[k].body.corrupt THEN "raise"
        ELSE IF InstanceConflict(o, reg, arc) THEN "conflict"
        ELSE "none"

\* self._resolve_strategies = {}
NoStrategies == [d \in {} |-> ""]

\* Mutant of PreReadMesh: the recorded strategies are cleared before the mesh
\* reader is asked.
PreReadMesh_ClearsStrategies ==
    /\ pc = "preRead"
    /\ resolve_strategies' = NoStrategies
    /\ \E accepted \in BOOLEAN :
          IF accepted
          THEN pc' = "scan" /\ result' = result
          ELSE pc' = "returned" /\ result' = "failed"
    /\ UNCHANGED <<archive, pre, idx, prompted, error>>
    /\ UNCHANGED readVars

\* Lines 47-52: the mesh reader is looked up and asked to preRead the file.
PreReadMesh ==
    /\ pc = "preRead"
    /\ \E accepted \in BOOLEAN :
          IF accepted
          THEN pc' = "scan" /\ result' = result
          ELSE pc' = "returned" /\ result' = "failed"
    /\ UNCHANGED <<archive, pre, resolve_strategies, idx, prompted, error>>
    /\ UNCHANGED readVars

\* Mutant of PreReadScan: the scan adds the first instance container it
\* deserialized to the registry.
PreReadScan_Adds ==
    /\ pc = "scan"
    /\ LET found == DetectConflict(objs, registry, archive)
           files == FilesWithSuffix(archive, instance_container_suffix)
       IN  /\ pc' = CASE found = "raise" -> "raised"
                      [] found = "conflict" -> "dialog"
                      [] OTHER -> "read"
           /\ error' = IF found = "raise" THEN "Corrupt" ELSE error
           /\ result' = IF found = "none" THEN "accepted" ELSE result
           /\ objs' = IF files = <<>> THEN objs
                      ELSE Append(objs, NewContainer("instance", StripFileToId(files[1])))
           /\ registry' = IF files = <<>> THEN registry
                          ELSE addContainer(objs', registry, Len(objs'))
    /\ UNCHANGED <<archive, pre, resolve_strategies, idx, prompted>>
    /\ UNCHANGED <<id_mapping, quality_changes_instance_containers, global_stack,
                   extruder_stacks, extruder_trains, active, preferences, calls, renamed>>

\* Lines 54-82 and 93: the scan of the archive for conflicts.
PreReadScan ==
    /\ pc = "scan"
    /\ LET found == DetectConflict(objs, registry, archive)
       IN  /\ pc' = CASE found = "raise" -> "raised"
                      [] found = "conflict" -> "dialog"
                      [] OTHER -> "read"
           /\ error' = IF found = "raise" THEN "Corrupt" ELSE error
           /\ result' = IF found = "none" THEN "accepted" ELSE result
    /\ UNCHANGED <<archive, pre, resolve_strategies, idx, prompted>>
    /\ UNCHANGED readVars

Strategies(r) == [d \in {"machine", "quality_changes"} |-> r]

\* Lines 83-93: the dialog is shown and its result recorded.
PreReadDialog ==
    /\ pc = "dialog"
    /\ prompted' = TRUE
    /\ \E r \in {"override", "new", "cancel"} :
          IF r = "cancel"
          THEN /\ resolve_strategies' = NoStrategies
               /\ result' = "cancelled"
               /\ pc' = "returned"
          ELSE /\ resolve_strategies' = Strategies(r)
               /\ result' = "accepted"
               /\ pc' = "read"
    /\ UNCHANGED <<archive, pre, idx, error>>
    /\ UNCHANGED readVars

(***************************************************************************)
(* read                                                                    *)
(***************************************************************************)
PhaseSuffix(phase) ==
    CASE phase = "definitions" -> definition_container_suffix
      [] phase = "materials" -> material_container_suffix
      [] phase = "instances" -> instance_container_suffix
      [] phase = "stacks" -> container_stack_suffix

PhaseFiles(phase) == FilesWithSuffix(archive, PhaseSuffix(phase))

\* The first loop from `phase` on that has an entry to process; line 231
\* ("strategy") follows the last loop.
EnterPhase(phase) ==
    LET order == <<"definitions", "materials", "instances", "stacks">>
        from == CHOOSE k \in 1..4 : order[k] = phase
        open == {k \in from..4 : PhaseFiles(order[k]) # <<>>}
    IN  IF open = {} THEN "strategy"
        ELSE order[CHOOSE k \in open : \A j \in open : k <= j]

AfterPhase(phase) ==
    CASE phase = "definitions" -> EnterPhase("materials")
      [] phase = "materials" -> EnterPhase("instances")
      [] phase = "instances" -> EnterPhase("stacks")
      [] phase = "stacks" -> "strategy"

\* The loop moves on to its next entry, or the next loop starts.
Advance(phase) ==
    IF idx < Len(PhaseFiles(phase))
    THEN pc' = phase /\ idx' = idx + 1
    ELSE pc' = AfterPhase(phase) /\ idx' = 1

\* The position of the entry in the archive: tags the payload an object holds.
FileIndex(file) == CHOOSE k \in 1..Len(archive) : archive[k] = file

\* An exception leaves read.
Raise(e) == pc' = "raised" /\ error' = e /\ idx' = idx

\* Lines 95-116: the mesh is read, the preferences are copied, the id
\* mapping is reset.
ReadBegin ==
    /\ pc = "read"
    /\ preferences' = "archive"
    /\ id_mapping' = EmptyMap
    /\ calls' = <<>>
    /\ renamed' = <<>>
    /\ pc' = EnterPhase("definitions")
    /\ idx' = 1
    /\ UNCHANGED <<archive, pre, resolve_strategies, result, prompted, error, objs,
                   registry, quality_changes_instance_containers, global_stack,
                   extruder_stacks, extruder_trains, active>>

\* Mutant of AddIfAbsent: a container the registry has is deserialized in
\* place from the archive's entry.
AddIfAbsent_Overwrites(phase, cls, found) ==
    LET file == PhaseFiles(phase)[idx]
        h == Len(objs) + 1
        made == Deserialize(objs, registry, NewContainer(cls, StripFileToId(file)),
                            file.body, FileIndex(file))
    IN  IF DeserializeFails(objs, registry, cls, file.body)
        THEN Raise("Corrupt") /\ UNCHANGED <<objs, registry>>
        ELSE IF found # <<>>
        THEN /\ objs' = [objs EXCEPT ![Head(found)] =
                            Deserialize(objs, registry, @, file.body, FileIndex(file))]
             /\ Advance(phase)
             /\ UNCHANGED <<registry, error>>
        ELSE /\ objs' = Append(objs, made)
             /\ registry' = addContainer(objs', registry, h)
             /\ Advance(phase)
             /\ error' = error

\* Lines 124-130 (cls "definition") and 139-145 (cls "material"): one
\* iteration of an add-if-absent loop.
AddIfAbsent(phase, cls, found) ==
    LET file == PhaseFiles(phase)[idx]
        h == Len(objs) + 1
        made == Deserialize(objs, registry, NewContainer(cls, StripFileToId(file)),
                            file.body, FileIndex(file))
    IN  IF found # <<>>
        THEN Advance(phase) /\ UNCHANGED <<objs, registry, error>>
        ELSE IF DeserializeFails(objs, registry, cls, file.body)
        THEN Raise("Corrupt") /\ UNCHANGED <<objs, registry>>
        ELSE /\ objs' = Append(objs, made)
             /\ registry' = addContainer(objs', registry, h)
             /\ Advance(phase)
             /\ error' = error

ReadDefinition ==
    /\ pc = "definitions"
    /\ AddIfAbsent("definitions", "definition",
                   findDefinitionContainers(objs, registry,
                       StripFileToId(PhaseFiles("definitions")[idx])))
    /\ UNCHANGED <<archive, pre, resolve_strategies, result, prompted, id_mapping,
                   quality_changes_instance_containers, global_stack, extruder_stacks,
                   extruder_trains, active, preferences, calls, renamed>>

ReadMaterial ==
    /\ pc = "materials"
    /\ AddIfAbsent("materials", "material",
                   findInstanceContainers(objs, registry,
                       StripFileToId(PhaseFiles("materials")[idx])))
    /\ UNCHANGED <<archive, pre, resolve_strategies, result, prompted, id_mapping,
                   quality_changes_instance_containers, global_stack, extruder_stacks,
                   extruder_trains, active, preferences, calls, renamed>>

\* The object with a new identity and that identity as its name (lines
\* 172-173 and 180-181).
WithNewId(obj, new_id) == [obj EXCEPT !.id = new_id, !.name = new_id]

\* Lines 169-182: which metadata entry names the owner of a user profile
\* that is added under a new id (None: neither is set, nothing is added).
OwnerOf(body) ==
    IF Truthy(body.extruder) THEN body.extruder
    ELSE IF Truthy(body.machine) THEN body.machine
    ELSE None

\* Lines 159-185: one instance container of type user.
ReadUserContainer(file) ==
    LET container_id == StripFileToId(file)
        user_containers == findInstanceContainers(objs, registry, container_id)
        h == Len(objs) + 1
        instance_container == Deserialize(objs, registry,
                                  NewContainer("instance", container_id),
                                  file.body, FileIndex(file))
        owner == OwnerOf(file.body)
        got == getNewId(objs, registry, id_mapping, owner)
    IN  IF user_containers = <<>>
        THEN /\ objs' = Append(objs, instance_container)
             /\ registry' = addContainer(objs', registry, h)
             /\ Advance("instances")
             /\ UNCHANGED <<error, id_mapping, calls, renamed>>
        ELSE IF "machine" \notin DOMAIN resolve_strategies
        THEN Raise("KeyError") /\ UNCHANGED <<objs, registry, id_mapping, calls, renamed>>
        ELSE IF resolve_strategies["machine"] = "override"
        THEN /\ objs' = [objs EXCEPT ![Head(user_containers)] =
                            Deserialize(objs, registry, @, file.body, FileIndex(file))]
             /\ Advance("instances")
             /\ UNCHANGED <<registry, error, id_mapping, calls, renamed>>
        ELSE IF resolve_strategies["machine"] = "new" /\ Truthy(owner)
        THEN /\ id_mapping' = got.map
             /\ calls' = Append(calls, CallRecord(objs, registry, id_mapping, owner))
             /\ objs' = Append(objs, WithNewId(instance_container, CurrentSettings(got.id)))
             /\ registry' = addContainer(objs', registry, h)
             /\ renamed' = Append(renamed, h)
             /\ Advance("instances")
             /\ error' = error
        ELSE /\ Advance("instances")
             /\ UNCHANGED <<objs, registry, error, id_mapping, calls, renamed>>

\* Lines 186-194: one instance container of type quality_changes.
ReadQualityChangesContainer(file) ==
    LET container_id == StripFileToId(file)
        quality_changes == findInstanceContainers(objs, registry, container_id)
        h == Len(objs) + 1
        instance_container == Deserialize(objs, registry,
                                  NewContainer("instance", container_id),
                                  file.body, FileIndex(file))
        heap == Append(objs, instance_container)
    IN  IF quality_changes = <<>>
        THEN /\ objs' = heap
             /\ registry' = addContainer(heap, registry, h)
             /\ quality_changes_instance_containers' =
                    Append(quality_changes_instance_containers, h)
             /\ Advance("instances")
             /\ error' = error
        ELSE IF "quality_changes" \notin DOMAIN resolve_strategies
        THEN /\ Raise("KeyError")
             /\ objs' = heap
             /\ UNCHANGED <<registry, quality_changes_instance_containers>>
        ELSE /\ objs' = IF resolve_strategies["quality_changes"] = "override"
                        THEN [heap EXCEPT ![Head(quality_changes)] =
                                 Deserialize(objs, registry, @, file.body, FileIndex(file))]
                        ELSE heap
             /\ quality_changes_instance_containers' =
                    Append(quality_changes_instance_containers, h)
             /\ Advance("instances")
             /\ UNCHANGED <<registry, error>>

\* Mutant of ReadInstance: an entry that does not parse is noted and skipped,
\* and the loop goes on.
ReadInstance_SkipsCorrupt ==
    /\ pc = "instances"
    /\ LET file == PhaseFiles("instances")[idx]
       IN  IF DeserializeFails(objs, registry, "instance", file.body)
           THEN /\ Advance("instances")
                /\ error' = "Corrupt"
                /\ UNCHANGED <<objs, registry, id_mapping, calls, renamed,
                               quality_changes_instance_containers>>
           ELSE IF file.body.type = "user"
           THEN /\ ReadUserContainer(file)
                /\ UNCHANGED quality_changes_instance_containers
           ELSE IF file.body.type = "quality_changes"
           THEN /\ ReadQualityChangesContainer(file)
                /\ UNCHANGED <<id_mapping, calls, renamed>>
           ELSE /\ Advance("instances")
                /\ UNCHANGED <<objs, registry, error, id_mapping, calls, renamed,
                               quality_changes_instance_containers>>
    /\ UNCHANGED <<archive, pre, resolve_strategies, result, prompted, global_stack,
                   extruder_stacks, extruder_trains, active, preferences>>

\* Lines 152-196: one iteration of the instance container loop.
ReadInstance ==
    /\ pc = "instances"
    /\ LET file == PhaseFiles("instances")[idx]
       IN  IF DeserializeFails(objs, registry, "instance", file.body)
           THEN /\ Raise("Corrupt")
                /\ UNCHANGED <<objs, registry, id_mapping, calls, renamed,
                               quality_changes_instance_containers>>
           ELSE IF file.body.type = "user"
           THEN /\ ReadUserContainer(file)
                /\ UNCHANGED quality_changes_instance_containers
           ELSE IF file.body.type = "quality_changes"
           THEN /\ ReadQualityChangesContainer(file)
                /\ UNCHANGED <<id_mapping, calls, renamed>>
           ELSE /\ Advance("instances")
                /\ UNCHANGED <<objs, registry, error, id_mapping, calls, renamed,
                               quality_changes_instance_containers>>
    /\ UNCHANGED <<archive, pre, resolve_strategies, result, prompted, global_stack,
                   extruder_stacks, extruder_trains, active, preferences>>

\* Lines 226-229: the stack is an extruder stack or it is the global stack.
Classify(heap, h) ==
    IF heap[h].type = "extruder_train"
    THEN /\ extruder_stacks' = Append(extruder_stacks, h)
         /\ global_stack' = global_stack
    ELSE /\ global_stack' = h
         /\ extruder_stacks' = extruder_stacks

\* Mutant of DuplicateStack: the new stack is added, but the stack found in the
\* registry stays the one that is classified.
DuplicateStack_ClassifiesOld(file) ==
    LET container_id == StripFileToId(file)
        got == getNewId(objs, registry, id_mapping, container_id)
        h == Len(objs) + 1
        read == Deserialize(objs, registry, NewContainer("stack", got.id),
                            file.body, FileIndex(file))
        stack == [read EXCEPT !.id = got.id,
                              !.name = uniqueName(objs, registry, read.name)]
    IN  /\ id_mapping' = got.map
        /\ calls' = Append(calls, CallRecord(objs, registry, id_mapping, container_id))
        /\ IF DeserializeFails(objs, registry, "stack", file.body)
           THEN /\ Raise("Corrupt")
                /\ UNCHANGED <<objs, registry, renamed, global_stack, extruder_stacks>>
           ELSE /\ objs' = Append(objs, stack)
                /\ registry' = addContainer(objs', registry, h)
                /\ renamed' = Append(renamed, h)
                /\ Classify(objs', Head(findContainerStacks(objs, registry, container_id)))
                /\ Advance("stacks")
                /\ error' = error

\* Lines 212-219: the stack is added under a new id and a unique name.
DuplicateStack(file) ==
    LET container_id == StripFileToId(file)
        got == getNewId(objs, registry, id_mapping, container_id)
        h == Len(objs) + 1
        read == Deserialize(objs, registry, NewContainer("stack", got.id),
                            file.body, FileIndex(file))
        stack == [read EXCEPT !.id = got.id,
                              !.name = uniqueName(objs, registry, read.name)]
    IN  /\ id_mapping' = got.map
        /\ calls' = Append(calls, CallRecord(objs, registry, id_mapping, container_id))
        /\ IF DeserializeFails(objs, registry, "stack", file.body)
           THEN /\ Raise("Corrupt")
                /\ UNCHANGED <<objs, registry, renamed, global_stack, extruder_stacks>>
           ELSE /\ objs' = Append(objs, stack)
                /\ registry' = addContainer(objs', registry, h)
                /\ renamed' = Append(renamed, h)
                /\ Classify(objs', h)
                /\ Advance("stacks")
                /\ error' = error

\* Mutant of OverrideStack: an existing stack is duplicated under override too.
OverrideStack_Duplicates(file, h) == DuplicateStack(file)

\* Lines 208-211: the stack of the registry is deserialized in place.
OverrideStack(file, h) ==
    IF DeserializeFails(objs, registry, "stack", file.body)
    THEN /\ Raise("Corrupt")
         /\ UNCHANGED <<objs, registry, id_mapping, calls, renamed, global_stack,
                        extruder_stacks>>
    ELSE /\ objs' = [objs EXCEPT ![h] =
                        Deserialize(objs, registry, @, file.body, FileIndex(file))]
         /\ Classify(objs', h)
         /\ Advance("stacks")
         /\ UNCHANGED <<registry, error, id_mapping, calls, renamed>>

\* Lines 220-224: the stack is added as the archive has it.
AddStack(file) ==
    LET h == Len(objs) + 1
        stack == Deserialize(objs, registry, NewContainer("stack", StripFileToId(file)),
                             file.body, FileIndex(file))
    IN  IF DeserializeFails(objs, registry, "stack", file.body)
        THEN /\ Raise("Corrupt")
             /\ UNCHANGED <<objs, registry, id_mapping, calls, renamed, global_stack,
                            extruder_stacks>>
        ELSE /\ objs' = Append(objs, stack)
             /\ registry' = addContainer(objs', registry, h)
             /\ Classify(objs', h)
             /\ Advance("stacks")
             /\ UNCHANGED <<error, id_mapping, calls, renamed>>

\* Lines 203-229: one iteration of the stack loop.
ReadStack ==
    /\ pc = "stacks"
    /\ LET file == PhaseFiles("stacks")[idx]
           container_stacks == findContainerStacks(objs, registry, StripFileToId(file))
       IN  IF container_stacks = <<>>
           THEN AddStack(file)
           ELSE IF "machine" \notin DOMAIN resolve_strategies
           THEN /\ Raise("KeyError")
                /\ UNCHANGED <<objs, registry, id_mapping, calls, renamed, global_stack,
                               extruder_stacks>>
           ELSE IF resolve_strategies["machine"] = "override"
           THEN OverrideStack(file, Head(container_stacks))
           ELSE DuplicateStack(file)
    /\ UNCHANGED <<archive, pre, resolve_strategies, result, prompted,
                   quality_changes_instance_containers, extruder_trains, active,
                   preferences>>

\* Line 231: the strategy of the quality_changes domain is looked up.
ReadCheckStrategy ==
    /\ pc = "strategy"
    /\ IF "quality_changes" \notin DOMAIN resolve_strategies
       THEN Raise("KeyError")
       ELSE /\ pc' = IF /\ resolve_strategies["quality_changes"] = "new"
                        /\ quality_changes_instance_containers # <<>>
                     THEN "quality_new" ELSE "register"
            /\ idx' = 1
            /\ error' = error
    /\ UNCHANGED <<archive, pre, resolve_strategies, result, prompted>>
    /\ UNCHANGED readVars

\* stack.replaceContainer(index, container)
replaceContainer(stack, index, h) == [stack EXCEPT !.containers[index] = h]

RECURSIVE ReplaceInExtruders(_, _, _, _)
\* Lines 249-253: every extruder stack whose quality_changes container has
\* the old id gets the new container.  ok is FALSE when a stack holds no
\* quality_changes container (findContainer returns None).
ReplaceInExtruders(o, stacks, old_id, h) ==
    IF stacks = <<>> THEN [objs |-> o, ok |-> TRUE]
    ELSE LET stack == o[Head(stacks)]
             old_container == findContainer(o, stack, "quality_changes")
         IN  IF old_container = 0 THEN [objs |-> o, ok |-> FALSE]
             ELSE IF o[old_container].id = old_id
             THEN ReplaceInExtruders(
                      [o EXCEPT ![Head(stacks)] =
                          replaceContainer(stack, getContainerIndex(stack, old_container), h)],
                      Tail(stacks), old_id, h)
             ELSE ReplaceInExtruders(o, Tail(stacks), old_id, h)

\* Lines 242-253: the stacks of this import that hold the container with
\* the old id get container h instead.
ReplaceQualityChanges(o, old_id, h) ==
    LET old_container == IF global_stack = 0 THEN 0
                         ELSE findContainer(o, o[global_stack], "quality_changes")
    IN  IF old_container = 0 THEN [objs |-> o, ok |-> FALSE]
        ELSE IF o[old_container].id = old_id
        THEN [objs |-> [o EXCEPT ![global_stack] =
                           replaceContainer(o[global_stack],
                               getContainerIndex(o[global_stack], old_container), h)],
              ok |-> TRUE]
        ELSE ReplaceInExtruders(o, extruder_stacks, old_id, h)

\* Mutant of RenameAndAdd: the renamed container is not added (no line 240).
RenameAndAdd_NotAdded(o, reg, map, h) ==
    LET named == [o EXCEPT ![h].name = uniqueName(o, reg, o[h].name)]
        got == getNewId(named, reg, map, o[h].id)
        moved == [named EXCEPT ![h].id = got.id]
    IN  [objs |-> moved, registry |-> reg, map |-> got.map,
         call |-> CallRecord(named, reg, map, o[h].id)]

\* Lines 234-240: the container gets a unique name and a new id and is added.
RenameAndAdd(o, reg, map, h) ==
    LET named == [o EXCEPT ![h].name = uniqueName(o, reg, o[h].name)]
        got == getNewId(named, reg, map, o[h].id)
        moved == [named EXCEPT ![h].id = got.id]
    IN  [objs |-> moved, registry |-> addContainer(moved, reg, h), map |-> got.map,
         call |-> CallRecord(named, reg, map, o[h].id)]

\* Lines 233-253: one iteration of the loop over the quality_changes
\* containers of the archive under strategy "new".
ReadQualityChangesNew ==
    /\ pc = "quality_new"
    /\ LET h == quality_changes_instance_containers[idx]
           old_id == objs[h].id
           done == RenameAndAdd(objs, registry, id_mapping, h)
           replaced == ReplaceQualityChanges(done.objs, old_id, h)
       IN  /\ id_mapping' = done.map
           /\ calls' = Append(calls, done.call)
           /\ renamed' = Append(renamed, h)
           /\ registry' = done.registry
           /\ objs' = replaced.objs
           /\ IF ~replaced.ok
              THEN Raise("AttributeError")
              ELSE /\ error' = error
                   /\ IF idx < Len(quality_changes_instance_containers)
                      THEN pc' = pc /\ idx' = idx + 1
                      ELSE pc' = "register" /\ idx' = 1
    /\ UNCHANGED <<archive, pre, resolve_strategies, result, prompted,
                   quality_changes_instance_containers, global_stack, extruder_stacks,
                   extruder_trains, active, preferences>>

RECURSIVE RegisterTrains_KeepsFirst(_, _, _, _)
\* Mutant of RegisterTrains: a position that is taken keeps its stack.
RegisterTrains_KeepsFirst(o, trains, machine_id, stacks) ==
    IF stacks = <<>> THEN trains
    ELSE LET position == o[Head(stacks)].position
             taken == \E t \in trains : t[1] = machine_id /\ t[2] = position
         IN  RegisterTrains_KeepsFirst(o,
                 IF taken THEN trains
                 ELSE trains \cup {<<machine_id, position, Head(stacks)>>},
                 machine_id, Tail(stacks))

RECURSIVE RegisterTrains(_, _, _, _)
\* Lines 255-259: _extruder_trains[global id][position] = stack, for every
\* extruder stack in turn.  The registry of trains is a set of
\* <<machine id, position, stack>>, one per machine id and position.
RegisterTrains(o, trains, machine_id, stacks) ==
    IF stacks = <<>> THEN trains
    ELSE LET position == o[Head(stacks)].position
             kept == {t \in trains : ~(t[1] = machine_id /\ t[2] = position)}
         IN  RegisterTrains(o, kept \cup {<<machine_id, position, Head(stacks)>>},
                            machine_id, Tail(stacks))

ReadRegisterExtruders ==
    /\ pc = "register"
    /\ IF extruder_stacks # <<>> /\ global_stack = 0
       THEN Raise("AttributeError") /\ UNCHANGED extruder_trains
       ELSE /\ extruder_trains' =
                  IF extruder_stacks = <<>> THEN extruder_trains
                  ELSE RegisterTrains(objs, extruder_trains, objs[global_stack].id,
                                      extruder_stacks)
            /\ pc' = "activate"
            /\ UNCHANGED <<idx, error>>
    /\ UNCHANGED <<archive, pre, resolve_strategies, result, prompted, objs, registry,
                   id_mapping, quality_changes_instance_containers, global_stack,
                   extruder_stacks, active, preferences, calls, renamed>>

\* Mutant of SetNextStacks: only the first extruder stack gets the link.
SetNextStacks_FirstOnly(o, stacks, h) ==
    [k \in 1..Len(o) |->
        IF stacks # <<>> /\ stacks[1] = k THEN [o[k] EXCEPT !.next = h] ELSE o[k]]

\* stack.setNextStack(global_stack) for every extruder stack.
SetNextStacks(o, stacks, h) ==
    [k \in 1..Len(o) |->
        IF \E j \in 1..Len(stacks) : stacks[j] = k THEN [o[k] EXCEPT !.next = h] ELSE o[k]]

\* Lines 261-273: the change notifications, the next links and the
\* activation of the global stack.
ReadActivate ==
    /\ pc = "activate"
    /\ IF global_stack = 0
       THEN Raise("AttributeError") /\ UNCHANGED <<objs, active>>
       ELSE /\ objs' = SetNextStacks(objs, extruder_stacks, global_stack)
            /\ active' = global_stack
            /\ pc' = "done"
            /\ UNCHANGED <<idx, error>>
    /\ UNCHANGED <<archive, pre, resolve_strategies, result, prompted, registry,
                   id_mapping, quality_changes_instance_containers, global_stack,
                   extruder_stacks, extruder_trains, preferences, calls, renamed>>

Next ==
    \/ PreReadMesh
    \/ PreReadScan
    \/ PreReadDialog
    \/ ReadBegin
    \/ ReadDefinition
    \/ ReadMaterial
    \/ ReadInstance
    \/ ReadStack
    \/ ReadCheckStrategy
    \/ ReadQualityChangesNew
    \/ ReadRegisterExtruders
    \/ ReadActivate

Spec == Init /\ [][Next]_vars

(***************************************************************************)
(* A second import on the same reader.  The reader object lives as long as *)
(* the plugin: preRead and read are called again for the next file, with   *)
(* self._resolve_strategies and self._id_mapping as the last import left   *)
(* them.  The second file is the workspace of another machine.             *)
(***************************************************************************)
OtherMachineId == Str("printer_b", 1, FALSE)

\* The archive of the second import: the same definition and material, the
\* user profile and the stack of the other machine, optionally the
\* quality_changes profile.
OtherArchiveFiles(withQuality) ==
    <<File("3D/", <<"3dmodel", "model">>, NoPayload),
      File("Cura/", <<"preferences", "cfg">>, NoPayload),
      File("Cura/", <<DefinitionId>> \o definition_container_suffix,
           Payload(DefinitionId, "machine", None, None, <<>>, "")),
      File("Cura/", <<MaterialId>> \o material_container_suffix,
           Payload(MaterialId, "material", None, None, <<>>, "")),
      File("Cura/", <<CurrentSettings(OtherMachineId)>> \o instance_container_suffix,
           UserPayload(OtherMachineId, FALSE))>>
    \o IfSeq(withQuality,
         <<File("Cura/", <<QualityId>> \o instance_container_suffix,
                Payload(QualityId, "quality_changes", None, None, <<>>, ""))>>)
    \o <<File("Cura/", <<OtherMachineId>> \o container_stack_suffix,
              Payload(OtherMachineId, "machine", None, None,
                      <<CurrentSettings(OtherMachineId)>>
                      \o IfSeq(withQuality, <<QualityId>>)
                      \o <<MaterialId, DefinitionId>>, ""))>>

\* The archive is the one of the second import.
SecondImport ==
    LET files == FilesWithSuffix(archive, container_stack_suffix)
    IN  \E k \in 1..Len(files) : StripFileToId(files[k]) = OtherMachineId

\* The first import has ended (read returned or raised, or preRead did not
\* return accepted) and preRead is called for the next file.  The fields of
\* the reader, the registry, the extruder manager and the active stack stay
\* as they are; the locals of read (lines 150-151, 201-202) start empty.
NextImport ==
    /\ pc \in {"done", "raised", "returned"}
    /\ ~SecondImport
    /\ \E withQuality \in BOOLEAN : archive' = OtherArchiveFiles(withQuality)
    /\ pre' = [objs |-> objs, registry |-> registry]
    /\ pc' = "preRead"
    /\ idx' = 0
    /\ result' = "none"
    /\ prompted' = FALSE
    /\ error' = ""
    /\ quality_changes_instance_containers' = <<>>
    /\ global_stack' = 0
    /\ extruder_stacks' = <<>>
    /\ UNCHANGED <<objs, registry, resolve_strategies, id_mapping, extruder_trains,
                   active, preferences, calls, renamed>>

NextSeq == Next \/ NextImport

SpecSeq == Init /\ [][NextSeq]_vars

(***************************************************************************)
(* Vocabulary of the properties.                                           *)
(***************************************************************************)
Handles(reg) == {reg[k] : k \in 1..Len(reg)}

\* The ids the registry held before the import, by class.
PreIds(classes) ==
    {pre.objs[h].id : h \in {x \in Handles(pre.registry) : pre.objs[x].cls \in classes}}

\* The container entries of the archive with the given suffix, as a set.
Entries(suffix) ==
    {archive[k] : k \in {j \in 1..Len(archive) :
                            archive[j].dir = "Cura/" /\ EndsWith(archive[j], suffix)}}

NoCorruptEntry == \A k \in 1..Len(archive) : ~archive[k].body.corrupt

\* Some stack entry has the identity of a stack of the pre-import registry.
StackIdentityExists ==
    \E f \in Entries(container_stack_suffix) : Head(f.segs) \in PreIds({"stack"})

\* Some quality_changes profile entry has the identity of a profile of the
\* pre-import registry.
QualityIdentityExists ==
    \E f \in Entries(instance_container_suffix) :
        /\ f.body.type = "quality_changes"
        /\ Head(f.segs) \in PreIds({"instance", "material"})

\* Some user profile entry has the identity of a profile of the pre-import registry.
UserIdentityExists ==
    \E f \in Entries(instance_container_suffix) :
        /\ f.body.type = "user"
        /\ Head(f.segs) \in PreIds({"instance", "material"})

\* The registry is what it was before the import: the same objects, unchanged.
StoreUntouched ==
    /\ registry = pre.registry
    /\ \A h \in Handles(registry) : objs[h] = pre.objs[h]

\* preRead is running or has ended without read having started.
PreReadOnly ==
    \/ pc \in {"preRead", "scan", "dialog", "returned", "read"}
    \/ pc = "raised" /\ result = "none"

\* preRead has ended (returned or raised) after the mesh reader accepted.
PreReadEndedMeshAccepted ==
    /\ pc \notin {"preRead", "scan", "dialog"}
    /\ result # "failed"

Strategy(s) == resolve_strategies = Strategies(s)

\* The stacks this import processed: the global stack and the extruder stacks.
ProcessedStacks ==
    (IF global_stack = 0 THEN {} ELSE {global_stack}) \cup Handles(extruder_stacks)

\* The id of the quality_changes container a stack holds (None: it holds none).
QualityRef(o, h) ==
    IF findContainer(o, o[h], "quality_changes") = 0 THEN None
    ELSE o[findContainer(o, o[h], "quality_changes")].id

(***************************************************************************)
(* C1.  With no strategy recorded and no stack and no quality_changes      *)
(* identity of the archive in the registry, preRead returns accepted       *)
(* without showing the dialog and read then runs to completion: every      *)
(* entry is added as the archive has it and the machine stack is made      *)
(* active.  Stated for the archives all of whose entries parse and none of *)
(* whose user profiles is in the registry either.  The code does not do    *)
(* this: line 231 looks up a strategy that was never recorded.             *)
(***************************************************************************)
C1_NoConflictPassThrough ==
    (/\ NoCorruptEntry
     /\ ~StackIdentityExists /\ ~QualityIdentityExists /\ ~UserIdentityExists
     /\ PreReadEndedMeshAccepted)
    => /\ result = "accepted"
       /\ ~prompted
       /\ pc # "raised"
       /\ pc = "done" =>
            /\ active # 0 /\ active = global_stack /\ active \in Handles(registry)
            /\ \A f \in Entries(container_stack_suffix) \cup Entries(instance_container_suffix) :
                  \E h \in Handles(registry) :
                      objs[h].id = Head(f.segs) /\ objs[h].payload = FileIndex(f)

(***************************************************************************)
(* C2.  Under strategy new, for a quality_changes profile of the archive   *)
(* whose identity o the registry already had, after read every processed   *)
(* stack whose archive entry lists o holds the container with the newly    *)
(* allocated identity, and the old container o is unchanged.  The code     *)
(* does not do this: the `continue` of line 247 skips the extruder stacks  *)
(* once the global stack matched.                                          *)
(***************************************************************************)
C2_NewQualityChangesReplaced ==
    (pc = "done" /\ Strategy("new")) =>
        \A f \in Entries(instance_container_suffix) :
            (f.body.type = "quality_changes" /\ Head(f.segs) \in PreIds({"instance", "material"}))
            => /\ Head(f.segs) \in DOMAIN id_mapping
               /\ \A s \in ProcessedStacks :
                     (\E k \in 1..Len(archive[objs[s].payload].body.refs) :
                          archive[objs[s].payload].body.refs[k] = Head(f.segs))
                     => QualityRef(objs, s) = id_mapping[Head(f.segs)]
               /\ \A h \in Handles(pre.registry) :
                     pre.objs[h].id = Head(f.segs) => objs[h] = pre.objs[h]

(***************************************************************************)
(* C3.  preRead leaves the registry unchanged in every outcome (accepted,  *)
(* cancelled, failed, or an exception): until read starts the registry     *)
(* holds the same containers, unchanged; in particular after the dialog    *)
(* returned cancel.                                                        *)
(***************************************************************************)
C3_PreReadLeavesStore ==
    (PreReadOnly \/ result \in {"cancelled", "failed"}) => StoreUntouched

\* The dialog returned cancel and preRead returned cancelled.
C3_Witness == pc = "returned" /\ result = "cancelled" /\ prompted /\ StoreUntouched

(***************************************************************************)
(* C4, as claimed.  When the mesh reader accepts the file, preRead shows   *)
(* the dialog if and only if some stack entry's identity is among the      *)
(* registry's stacks or some quality_changes profile entry (that parses)   *)
(* has an identity of the registry.  Refuted: an instance container entry  *)
(* that does not parse makes preRead raise at line 75 before any dialog.   *)
(***************************************************************************)
ConflictExists ==
    \/ StackIdentityExists
    \/ \E f \in Entries(instance_container_suffix) :
          /\ ~f.body.corrupt
          /\ f.body.type = "quality_changes"
          /\ Head(f.segs) \in PreIds({"instance", "material"})

AddedHandles == Handles(registry) \ Handles(pre.registry)

\* The ids of the archive's entries of a class of the registry.
ArchiveIds(cls) ==
    {Head(f.segs) : f \in Entries(IF cls = "stack" THEN container_stack_suffix
                                  ELSE instance_container_suffix)}

(***************************************************************************)
(* C5.  Under strategy override, after read every stack and profile the    *)
(* registry had before keeps its identity; it is either untouched or holds *)
(* the payload of the archive entry of that identity.  The stack and       *)
(* profile identities gained were absent before and are the archive's, no  *)
(* stack identity is duplicated, and getNewId was never called (the id     *)
(* mapping is empty).                                                      *)
(***************************************************************************)
C5_OverridePreservesIdentity ==
    (pc = "done" /\ Strategy("override")) =>
        /\ \A h \in Handles(pre.registry) :
              pre.objs[h].cls \in {"stack", "instance"} =>
                 /\ h \in Handles(registry)
                 /\ objs[h].id = pre.objs[h].id
                 /\ objs[h].cls = pre.objs[h].cls
                 /\ objs[h].payload = 0 => [objs[h] EXCEPT !.next = 0] = pre.objs[h]
                 /\ objs[h].payload # 0 => Head(archive[objs[h].payload].segs) = objs[h].id
        /\ \A h \in AddedHandles :
              objs[h].cls \in {"stack", "instance"} =>
                 /\ objs[h].id \notin PreIds({objs[h].cls})
                 /\ objs[h].id \in ArchiveIds(objs[h].cls)
        /\ \A g, h \in Handles(registry) :
              (objs[g].cls = "stack" /\ objs[h].cls = "stack" /\ objs[g].id = objs[h].id)
              => g = h
        /\ id_mapping = EmptyMap
        /\ calls = <<>>

\* Read ended under override having overwritten a stack and a profile the
\* registry had and having added a stack it did not have.
C5_Witness ==
    /\ pc = "done" /\ Strategy("override")
    /\ \E h \in Handles(pre.registry) : objs[h].cls = "stack" /\ objs[h].payload # 0
    /\ \E h \in Handles(pre.registry) : objs[h].cls = "instance" /\ objs[h].payload # 0
    /\ \E h \in AddedHandles : objs[h].cls = "stack"

(***************************************************************************)
(* C6.  Under strategy new, when the identity of the archive's machine     *)
(* stack is in the registry, read leaves that stack as it was, adds        *)
(* exactly one stack for the entry, under the identity getNewId gave for   *)
(* the old one, and that new stack is the one given to                     *)
(* setGlobalContainerStack.                                                *)
(***************************************************************************)
C6_NewAddsMachineStack ==
    (pc = "done" /\ Strategy("new")) =>
        \A f \in Entries(container_stack_suffix) :
            (f.body.type # "extruder_train" /\ Head(f.segs) \in PreIds({"stack"})) =>
               /\ \A h \in Handles(pre.registry) :
                     (pre.objs[h].cls = "stack" /\ pre.objs[h].id = Head(f.segs))
                     => objs[h] = pre.objs[h]
               /\ Cardinality({h \in AddedHandles :
                                  objs[h].cls = "stack" /\ objs[h].payload = FileIndex(f)}) = 1
               /\ Head(f.segs) \in DOMAIN id_mapping
               /\ active \in AddedHandles
               /\ objs[active].payload = FileIndex(f)
               /\ objs[active].id = id_mapping[Head(f.segs)]
               /\ objs[active].id # Head(f.segs)

\* Read ended under new with the machine stack's identity in the registry
\* before, where two numbered variants existed already.
C6_Witness ==
    /\ pc = "done" /\ Strategy("new")
    /\ MachineId \in PreIds({"stack"}) /\ Numbered(MachineId, 2) \in PreIds({"stack"})
    /\ active # 0 /\ objs[active].id = Numbered(MachineId, 3)

\* No two entries of the archive strip to the same id.
DistinctEntryIds ==
    \A j, k \in ContainerFileIndexes(archive) :
        (Head(archive[j].segs) = Head(archive[k].segs)
            /\ archive[j].segs[Len(archive[j].segs)] = archive[k].segs[Len(archive[k].segs)]
            /\ archive[j].segs[Len(archive[j].segs) - 1] = archive[k].segs[Len(archive[k].segs) - 1])
        => j = k

(***************************************************************************)
(* C7.  Under strategy new, every stack, user profile and quality_changes  *)
(* profile that read gives a new identity gets one the pre-import registry *)
(* did not have and no other entity added in this import has, and a name   *)
(* no other entity of the registry has.  Stated for the archives whose     *)
(* entries have distinct ids.  The code does not do this: getNewId of an   *)
(* owner that is not in the registry is the owner's own id, so the user    *)
(* profile gets the identity of the profile that is already there.         *)
(***************************************************************************)
C7_NewIdentitiesUnique ==
    (pc = "done" /\ Strategy("new") /\ DistinctEntryIds) =>
        \A h \in Handles(renamed) :
            /\ objs[h].id \notin PreIds(AllClasses)
            /\ \A g \in (AddedHandles \cup Handles(renamed)) \ {h} : objs[g].id # objs[h].id
            /\ \A g \in Handles(registry) \ {h} : objs[g].name # objs[h].name

(***************************************************************************)
(* C8.  After read completes, under any strategy, every container a stack  *)
(* of the registry holds exists and has the identity of a container of the *)
(* registry.                                                               *)
(***************************************************************************)
C8_ReferentialIntegrity ==
    pc = "done" =>
        \A h \in Handles(registry) :
            objs[h].cls = "stack" =>
                \A k \in 1..Len(objs[h].containers) :
                    /\ objs[h].containers[k] # 0
                    /\ IdPresent(objs, registry, objs[objs[h].containers[k]].id)

\* Read ended under new with the global stack holding a quality_changes
\* container that was given a new identity in this import.
C8_Witness ==
    /\ pc = "done" /\ Strategy("new")
    /\ \E k \in 1..Len(objs[global_stack].containers) :
          /\ objs[global_stack].containers[k] \in Handles(renamed)
          /\ objs[objs[global_stack].containers[k]].id \notin PreIds(AllClasses)

(***************************************************************************)
(* C9.  Within one read, any two getNewId calls with the same old id       *)
(* return the same identity, whatever was added in between, and every      *)
(* entry of the id mapping is still the identity the call that wrote it    *)
(* returned.                                                               *)
(***************************************************************************)
C9_GetNewIdStable ==
    /\ \A i, j \in 1..Len(calls) : calls[i].old = calls[j].old => calls[i].ret = calls[j].ret
    /\ \A i \in 1..Len(calls) :
          calls[i].old \in DOMAIN id_mapping /\ id_mapping[calls[i].old] = calls[i].ret
    /\ DOMAIN id_mapping = {calls[i].old : i \in 1..Len(calls)}

\* Three calls for the same old id, the container with the returned id
\* having been added to the registry before the last one.
C9_Witness ==
    \E i, j, k \in 1..Len(calls) :
        /\ i < j /\ j < k
        /\ calls[i].old = calls[j].old /\ calls[j].old = calls[k].old
        /\ ~calls[j].present /\ calls[k].present

(***************************************************************************)
(* C10, as claimed.  Every getNewId call of read, cached or not, returns   *)
(* an identity no container of the registry has at the moment of the call. *)
(* Refuted: a call answered from the cache returns what the first call     *)
(* returned, and a container may have been added under it since.           *)
(***************************************************************************)
C10_GetNewIdAbsent == \A i \in 1..Len(calls) : ~calls[i].present

(***************************************************************************)
(* C10, amended.  Every getNewId call of read that is not answered from    *)
(* the cache returns an identity no container of the registry has at the   *)
(* moment of the call.                                                     *)
(***************************************************************************)
C10_FreshGetNewIdAbsent == \A i \in 1..Len(calls) : ~calls[i].cached => ~calls[i].present

\* A call that was not cached, for an old id the registry has, whose second
\* numbered variant it has as well.
C10_Witness ==
    \E i \in 1..Len(calls) :
        /\ ~calls[i].cached
        /\ calls[i].old \in PreIds(AllClasses)
        /\ Numbered(calls[i].old, 2) \in PreIds(AllClasses)
        /\ calls[i].ret = Numbered(calls[i].old, 3)

(***************************************************************************)
(* Registries in which a machine was renamed.  A stack keeps its id when   *)
(* its name is changed: the registry holds the stack "printer #2" whose    *)
(* name is "printer", and no stack whose id is "printer".                  *)
(***************************************************************************)
RenamedMachine(profiles) ==
    [StoredStack(profiles, Numbered(MachineId, 2), "machine", MachinePayload.refs, "")
        EXCEPT !.name = MachineId]

InitRenamed ==
    \E sD \in BOOLEAN, sT \in BOOLEAN, sQ \in BOOLEAN, sUm \in BOOLEAN, sUe \in BOOLEAN,
       sE \in BOOLEAN, aE \in BOOLEAN, aT \in BOOLEAN, aQ \in BOOLEAN :
        /\ aT => aE
        /\ aQ \/ sQ
        /\ \E c \in {0} \cup ContainerFileIndexes(ArchiveFiles(aE, aT, aQ)) :
               archive = WithCorrupt(ArchiveFiles(aE, aT, aQ), c)
        /\ objs = StoredObjects(sD, sT, sQ, sUm, sUe, 0, sE)
                  \o <<RenamedMachine(StoredProfiles(sD, sT, sQ, sUm, sUe))>>
        /\ registry = [k \in 1..Len(objs) |-> k]
        /\ pre = [objs |-> objs, registry |-> registry]
        /\ resolve_strategies = NoStrategies
        /\ id_mapping = EmptyMap
        /\ pc = "preRead"
        /\ idx = 0
        /\ result = "none"
        /\ prompted = FALSE
        /\ error = ""
        /\ quality_changes_instance_containers = <<>>
        /\ global_stack = 0
        /\ extruder_stacks = <<>>
        /\ extruder_trains = {}
        /\ active = 0
        /\ preferences = "application"
        /\ calls = <<>>
        /\ renamed = <<>>

SpecRenamed == InitRenamed /\ [][Next]_vars

\* read is running or has ended (returned or raised).
InRead ==
    \/ pc \in {"definitions", "materials", "instances", "stacks", "strategy",
               "quality_new", "register", "activate", "done"}
    \/ pc = "raised" /\ result = "accepted"

(***************************************************************************)
(* C11.  Over a sequence of imports on the same reader, the strategies a   *)
(* read consults are those the preRead of the same import decided: when    *)
(* that preRead showed no dialog, read runs with no recorded strategy, and *)
(* when it did, with the dialog's answer for both domains.  The code does  *)
(* not do this: preRead resets self._resolve_strategies only in the        *)
(* conflict branch (line 84) and read not at all, so the strategy of an    *)
(* earlier import is still there.                                          *)
(***************************************************************************)
C11_StrategiesOfThisImport ==
    InRead =>
        /\ ~prompted => resolve_strategies = NoStrategies
        /\ prompted => \E r \in {"override", "new"} : resolve_strategies = Strategies(r)

(***************************************************************************)
(* C12.  When read needs the strategy of a domain and none was recorded    *)
(* (a user profile of the archive is in the registry, and preRead found no *)
(* conflict, so it showed no dialog), the profile is treated as            *)
(* add-if-absent: read does not fail on the lookup, the containers the     *)
(* registry had are unchanged, and nothing is given a new identity.  The   *)
(* code does not do this: line 165 indexes the empty dict and raises       *)
(* KeyError.                                                               *)
(***************************************************************************)
C12_NoDecisionAddIfAbsent ==
    (InRead /\ resolve_strategies = NoStrategies /\ NoCorruptEntry /\ UserIdentityExists)
    => /\ error # "KeyError"
       /\ \A h \in Handles(pre.registry) : [objs[h] EXCEPT !.next = 0] = pre.objs[h]
       /\ renamed = <<>>

\* The archive's entries of the two add-if-absent classes.
DefinitionAndMaterialEntries ==
    {[f |-> f, cls |-> "definition"] : f \in Entries(definition_container_suffix)}
    \cup {[f |-> f, cls |-> "material"] : f \in Entries(material_container_suffix)}

\* The loops over the definitions and the materials have both ended.
PastMaterials ==
    pc \in {"instances", "stacks", "strategy", "quality_new", "register", "activate", "done"}

(***************************************************************************)
(* C13.  For definitions and materials, under every strategy and under     *)
(* none: once read is past their two loops, an entry whose identity the    *)
(* registry had is discarded (the registry's container is the same object, *)
(* unchanged, and no other container holds the entry's payload), an entry  *)
(* whose identity was absent was added exactly once under its archive      *)
(* identity, and getNewId was called for no identity of these classes.     *)
(***************************************************************************)
C13_DefinitionsMaterialsAddIfAbsent ==
    PastMaterials =>
        \A e \in DefinitionAndMaterialEntries :
            LET id == Head(e.f.segs)
                before == {h \in Handles(pre.registry) :
                              pre.objs[h].cls = e.cls /\ pre.objs[h].id = id}
                now == {h \in Handles(registry) : objs[h].cls = e.cls /\ objs[h].id = id}
                holders == {h \in 1..Len(objs) : objs[h].payload = FileIndex(e.f)}
            IN  /\ before # {} =>
                      /\ now = before
                      /\ \A h \in before : objs[h] = pre.objs[h]
                      /\ holders = {}
                /\ before = {} =>
                      /\ Cardinality(now) = 1
                      /\ holders = now
                      /\ now \subseteq AddedHandles
                /\ id \notin DOMAIN id_mapping
                /\ \A i \in 1..Len(calls) : calls[i].old # id

\* Read ended under a chosen strategy having discarded the archive's
\* definition (the registry had it) and added its material (absent before).
C13_Witness ==
    /\ pc = "done" /\ prompted
    /\ DefinitionId \in PreIds({"definition"})
    /\ MaterialId \notin PreIds({"material", "instance"})
    /\ \E h \in AddedHandles : objs[h].cls = "material" /\ objs[h].id = MaterialId

\* The stack entries of the archive of the given kind.
StackEntries(extruder) ==
    {f \in Entries(container_stack_suffix) : (f.body.type = "extruder_train") = extruder}

(***************************************************************************)
(* C14.  After read completes, every stack read classified as an extruder  *)
(* stack has its next link set to the machine stack of this import, which  *)
(* is the stack given to setGlobalContainerStack; there is one classified   *)
(* stack per stack entry of the archive, each classified as exactly one of *)
(* machine (type other than extruder_train) or extruder.                   *)
(***************************************************************************)
C14_ExtrudersLinkedToMachine ==
    pc = "done" =>
        /\ global_stack # 0
        /\ active = global_stack
        /\ objs[global_stack].type # "extruder_train"
        /\ objs[global_stack].payload # 0
        /\ archive[objs[global_stack].payload] \in StackEntries(FALSE)
        /\ global_stack \notin Handles(extruder_stacks)
        /\ Len(extruder_stacks) = Cardinality(StackEntries(TRUE))
        /\ \A k \in 1..Len(extruder_stacks) :
              LET e == objs[extruder_stacks[k]]
              IN  /\ e.type = "extruder_train"
                  /\ e.payload # 0
                  /\ archive[e.payload] \in StackEntries(TRUE)
                  /\ e.next = active

\* Read ended with two different extruder stacks of this import, both
\* linked to the active machine stack.
C14_Witness ==
    /\ pc = "done"
    /\ Len(extruder_stacks) = 2
    /\ extruder_stacks[1] # extruder_stacks[2]
    /\ objs[extruder_stacks[1]].next = active
    /\ objs[extruder_stacks[2]].next = active

(***************************************************************************)
(* C15.  If the mesh reader is missing or does not accept the file,        *)
(* preRead returns failed straight from its first step: the archive is     *)
(* never scanned, the dialog is not shown, and the step changes neither    *)
(* the recorded strategies (whatever an earlier import left there) nor the *)
(* id mapping nor the registry nor any container.                          *)
(***************************************************************************)
C15_MeshFailureFails ==
    /\ [](result = "failed" => (pc = "returned" /\ ~prompted /\ error = "" /\ StoreUntouched))
    /\ [][result' = "failed" =>
             /\ pc = "preRead"
             /\ UNCHANGED <<archive, objs, registry, resolve_strategies, id_mapping,
                            prompted, error, extruder_trains, active, preferences>>]_vars

\* preRead of a second import returned failed while the strategy of the
\* first import was still recorded.
C15_Witness ==
    /\ SecondImport /\ pc = "returned" /\ result = "failed"
    /\ resolve_strategies = Strategies("new")

\* The quality_changes profile entries of the archive.
QualityChangesEntries ==
    {f \in Entries(instance_container_suffix) : f.body.type = "quality_changes"}

(***************************************************************************)
(* C16.  A quality_changes profile of the archive whose identity the       *)
(* registry did not have is added exactly once under its archive identity  *)
(* and, when read completes, still has that identity and its archive name, *)
(* under every strategy.  The code does not do this: line 194 puts every   *)
(* quality_changes profile on the list that lines 233-240 rename under     *)
(* strategy new, the ones just added included.                             *)
(***************************************************************************)
C16_AbsentQualityChangesKept ==
    pc = "done" =>
        \A f \in QualityChangesEntries :
            Head(f.segs) \notin PreIds({"instance", "material"}) =>
                LET holders == {h \in Handles(registry) : objs[h].payload = FileIndex(f)}
                IN  /\ Cardinality(holders) = 1
                    /\ \A h \in holders :
                          /\ h \in AddedHandles
                          /\ objs[h].id = Head(f.segs)
                          /\ objs[h].name = f.body.name

\* The user profile entries of the archive.
UserEntries == {f \in Entries(instance_container_suffix) : f.body.type = "user"}

(***************************************************************************)
(* C17.  Under strategy new, for every user profile of the archive whose   *)
(* identity the registry had, read adds exactly one container holding the  *)
(* entry's payload, with the identity getNewId(owner) followed by          *)
(* "_current_settings" (owner: the extruder entry if set, else the machine *)
(* entry), and leaves the registry's profile unchanged.  The code does not *)
(* do this: when getNewId(owner) is the owner's own id the new identity is *)
(* the one the registry has and addContainer drops the profile.            *)
(***************************************************************************)
C17_NewUserProfileAdded ==
    (pc = "done" /\ Strategy("new")) =>
        \A f \in UserEntries :
            Head(f.segs) \in PreIds({"instance", "material"}) =>
                LET owner == OwnerOf(f.body)
                    added == {h \in AddedHandles : objs[h].payload = FileIndex(f)}
                IN  /\ owner \in DOMAIN id_mapping
                    /\ Cardinality(added) = 1
                    /\ \A h \in added : objs[h].id = CurrentSettings(id_mapping[owner])
                    /\ \A h \in Handles(pre.registry) :
                          pre.objs[h].id = Head(f.segs) => objs[h] = pre.objs[h]

(***************************************************************************)
(* C18, as claimed.  After read completes, every extruder stack e of this  *)
(* import is registered in _extruder_trains under the machine stack's id   *)
(* and e's position.  Refuted: the registration is one stack per position, *)
(* so of two extruder stacks with the same position the first is replaced. *)
(***************************************************************************)
C18_EveryExtruderRegistered ==
    pc = "done" =>
        \A k \in 1..Len(extruder_stacks) :
            <<objs[global_stack].id, objs[extruder_stacks[k]].position, extruder_stacks[k]>>
                \in extruder_trains

(***************************************************************************)
(* C18, amended.  After read completes, _extruder_trains maps the machine  *)
(* stack's id and each position to the last extruder stack of this import  *)
(* that has that position: every extruder stack whose position no later    *)
(* extruder stack of the import has is registered, and when the positions  *)
(* are distinct every one is.                                              *)
(***************************************************************************)
C18_LastExtruderPerPositionRegistered ==
    pc = "done" =>
        /\ \A k \in 1..Len(extruder_stacks) :
              (\A j \in (k + 1)..Len(extruder_stacks) :
                   objs[extruder_stacks[j]].position # objs[extruder_stacks[k]].position)
              => <<objs[global_stack].id, objs[extruder_stacks[k]].position,
                   extruder_stacks[k]>> \in extruder_trains
        /\ \A t \in extruder_trains :
              t[1] = objs[global_stack].id =>
                 \E k \in 1..Len(extruder_stacks) : extruder_stacks[k] = t[3]

\* Read ended with two different extruder stacks of the same position, the
\* second of which is the one registered.
C18_Witness ==
    /\ pc = "done"
    /\ Len(extruder_stacks) = 2
    /\ extruder_stacks[1] # extruder_stacks[2]
    /\ objs[extruder_stacks[1]].position = objs[extruder_stacks[2]].position
    /\ <<objs[global_stack].id, objs[extruder_stacks[2]].position, extruder_stacks[2]>>
           \in extruder_trains

\* The entry whose payload does not parse.  The archives of the model list
\* their entries in the order read processes them (definitions, materials,
\* instance containers, stacks), so a later entry has a higher index.
CorruptIndex == CHOOSE k \in 1..Len(archive) : archive[k].body.corrupt

(***************************************************************************)
(* C19.  If a deserialize fails during read, the exception leaves read at  *)
(* that entry: no container holds the payload of that or of a later entry  *)
(* (nothing later was added or overwritten), no quality_changes profile    *)
(* was renamed, no next link, extruder registration or active stack was    *)
(* set, and what was committed before stays: the registry still begins     *)
(* with the containers it had, and every earlier entry whose identity was  *)
(* absent is in the registry with its payload.                             *)
(***************************************************************************)
C19_CorruptStopsImport ==
    (error = "Corrupt" /\ result = "accepted") =>
        /\ pc = "raised"
        /\ ~NoCorruptEntry
        /\ active = 0
        /\ extruder_trains = {}
        /\ \A h \in 1..Len(objs) : objs[h].next = 0 /\ objs[h].payload < CorruptIndex
        /\ Len(registry) >= Len(pre.registry)
        /\ SubSeq(registry, 1, Len(pre.registry)) = pre.registry
        /\ \A h \in AddedHandles : objs[h].payload > 0
        /\ \A k \in ContainerFileIndexes(archive) :
              (k < CorruptIndex /\ Head(archive[k].segs) \notin PreIds(AllClasses))
              => \E h \in AddedHandles : objs[h].payload = k
        /\ \A k \in 1..Len(quality_changes_instance_containers) :
              quality_changes_instance_containers[k] \notin Handles(renamed)
        /\ Len(calls) <= Cardinality({k \in ContainerFileIndexes(archive) : k <= CorruptIndex})

\* Read raised at a stack entry under strategy new after it had added
\* containers and after getNewId had been called.
C19_Witness ==
    /\ pc = "raised" /\ error = "Corrupt" /\ result = "accepted" /\ Strategy("new")
    /\ EndsWith(archive[CorruptIndex], container_stack_suffix)
    /\ AddedHandles # {}
    /\ calls # <<>>
    /\ quality_changes_instance_containers # <<>>

\* The user profiles read added under a new identity.
AddedUserDuplicates ==
    {h \in Handles(renamed) \cap Handles(registry) : objs[h].type = "user"}

\* The stacks of this import read from the stack entry of the given id.
StacksOfEntry(id) ==
    {s \in ProcessedStacks :
        objs[s].payload # 0 /\ Head(archive[objs[s].payload].segs) = id}

(***************************************************************************)
(* C20.  Under strategy new, whenever read added a duplicated user profile *)
(* under the identity n + "_current_settings", the stack this import       *)
(* committed for the profile's owner (its extruder entry, else its machine *)
(* entry) has the identity n, whether or not the registry had a stack of   *)
(* the owner's archive identity.  The code does not do this when the       *)
(* registry has no stack of that identity but uniqueName finds the         *)
(* identity taken: the profile follows getNewId, the stack is added as the *)
(* archive has it.                                                         *)
(***************************************************************************)
C20_UserProfileFollowsOwner ==
    (pc = "done" /\ Strategy("new")) =>
        \A h \in AddedUserDuplicates :
            LET owner == OwnerOf(archive[objs[h].payload].body)
            IN  /\ StacksOfEntry(owner) # {}
                /\ \A s \in StacksOfEntry(owner) : objs[h].id = CurrentSettings(objs[s].id)

====
